---------------------------- MODULE Spec2Model ----------------------------
(***************************************************************************)
(* Order matching engine: the order book (price-time priority multisets,   *)
(* the matching loops), the order queue (mutex + condition variable) and   *)
(* the matching engine (lifecycle, workers, statistics).                   *)
(*                                                                         *)
(* Prices are doubles in the source; the model uses small naturals, on     *)
(* which <, > and != behave as they do on finite non-NaN doubles.          *)
(* Timestamps are system_clock readings taken in the Order constructor;    *)
(* the model draws them from 1..MaxTs so that ties and orders admitted out *)
(* of creation order both occur.  Trade timestamps are not modelled.       *)
(***************************************************************************)
EXTENDS Integers, Sequences, FiniteSets, TLC

\* ------------------------------------------------------------------ bounds
MaxOrders == 3
MaxPrice == 2
MaxQty == 2
MaxTs == 2
MaxSubmits == 2
MaxWorkers == 2
MaxStarts == 2
MaxCalls == 3
MaxReaders == 1
ToStringLevels == 5

Ids == 1..MaxOrders
Prices == 1..MaxPrice
Quantities == 1..MaxQty
Timestamps == 1..MaxTs
Sides == {"BUY", "SELL"}
Types == {"LIMIT", "MARKET"}
Workers == 1..MaxWorkers
Readers == 1..MaxReaders

VARIABLES
    orders,        \* id -> Order object (shared_ptr<Order> targets), created orders only
    buyOrders_,    \* OrderBook::buyOrders_ : multiset as the sequence of ids in iteration order
    sellOrders_,   \* OrderBook::sellOrders_
    orderMap_,     \* OrderBook::orderMap_ : the set of keys
    bookLock,      \* OrderBook::mutex_ : 0 = free, otherwise the thread holding it exclusively
    tradeLog,      \* every trade in the order MatchingEngine::onTrade was invoked
    lastCall,      \* the most recent completed addOrder: aggressor id and returned trades
    stats_,        \* MatchingEngineStats
    running_,      \* MatchingEngine::running_
    numWorkers_,   \* MatchingEngine::numWorkers_
    wpc,           \* program counter of each worker thread
    worder,        \* the order a worker holds between dequeue and processOrderSync
    wtrades,       \* the trades addOrder returned to a worker (processOrderSync's local)
    queue_,        \* OrderQueue::queue_
    shutdown_,     \* OrderQueue::shutdown_
    mpc,           \* program counter of the lifecycle (main) thread
    ppc,           \* program counter of the producer thread
    porder,        \* the order the producer is submitting
    starts,        \* number of start() calls that spawned workers
    accepted,      \* orders enqueued by submitOrder, in enqueue order
    processed,     \* orders passed to processOrderSync by workers, in lock order
    received,      \* what each consumer of the queue was returned, call by call
    wremaining,    \* remainingQty, the local counter of a thread inside the matching loop
    readers,       \* the threads holding the book's mutex_ in shared mode
    lastFill       \* the latest Order::fill called by the application, and what it returned

bookVars == <<orders, buyOrders_, sellOrders_, orderMap_, bookLock, tradeLog, lastCall, stats_>>
engineVars == <<running_, numWorkers_, wpc, worder, wtrades, queue_, shutdown_, mpc, ppc, porder,
                starts, accepted, processed>>
auxVars == <<received, wremaining, readers, lastFill>>
vars == <<orders, buyOrders_, sellOrders_, orderMap_, bookLock, tradeLog, lastCall, stats_,
          running_, numWorkers_, wpc, worder, wtrades, queue_, shutdown_, mpc, ppc, porder,
          starts, accepted, processed, received, wremaining, readers, lastFill>>

Min(a, b) == IF a <= b THEN a ELSE b

\* ------------------------------------------------------------------ Order
\* Order::Order
NewOrder(id, side, type, price, quantity, ts) ==
    [id |-> id, side |-> side, type |-> type, price |-> price, quantity |-> quantity,
     filledQuantity |-> 0, timestamp |-> ts, status |-> "NEW"]

\* Order::getRemainingQuantity
getRemainingQuantity(o) == o.quantity - o.filledQuantity

fillMarksFilled(o, fillQuantity) ==
    IF fillQuantity <= 0 \/ fillQuantity > getRemainingQuantity(o)
    THEN o
    ELSE [o EXCEPT !.filledQuantity = o.filledQuantity + fillQuantity,
                   !.status = "FILLED"]

fillKeepsPartialStatus(o, fillQuantity) ==
    IF fillQuantity <= 0 \/ fillQuantity > getRemainingQuantity(o)
    THEN o
    ELSE [o EXCEPT !.filledQuantity = o.filledQuantity + fillQuantity,
                   !.status = IF o.filledQuantity + fillQuantity = o.quantity
                              THEN "FILLED" ELSE o.status]

fillClampsExcess(o, fillQuantity) ==
    LET q == Min(fillQuantity, getRemainingQuantity(o))
    IN IF q <= 0
       THEN o
       ELSE [o EXCEPT !.filledQuantity = o.filledQuantity + q,
                      !.status = IF o.filledQuantity + q = o.quantity
                                 THEN "FILLED" ELSE "PARTIALLY_FILLED"]

\* Order::fill : rejected (no mutation) when the quantity is zero or exceeds the remainder
fill(o, fillQuantity) ==
    IF fillQuantity <= 0 \/ fillQuantity > getRemainingQuantity(o)
    THEN o
    ELSE [o EXCEPT !.filledQuantity = o.filledQuantity + fillQuantity,
                   !.status = IF o.filledQuantity + fillQuantity = o.quantity
                              THEN "FILLED" ELSE "PARTIALLY_FILLED"]

\* Order::fill, the value returned: true only when the order became FILLED
fillReturns(o, fillQuantity) ==
    IF fillQuantity <= 0 \/ fillQuantity > getRemainingQuantity(o)
    THEN FALSE
    ELSE o.filledQuantity + fillQuantity = o.quantity

\* Order::cancel
cancel(o) == IF o.status # "FILLED" THEN [o EXCEPT !.status = "CANCELED"] ELSE o

\* Trade::Trade
Trade(buyOrderId, sellOrderId, price, quantity) ==
    [buy |-> buyOrderId, sell |-> sellOrderId, price |-> price, quantity |-> quantity]

\* ------------------------------------------------------------------ OrderBook
BuyOrderComparatorFlipped(lhs, rhs) ==
    IF lhs.price # rhs.price THEN lhs.price < rhs.price
    ELSE lhs.timestamp < rhs.timestamp

\* BuyOrderComparator::operator()
BuyOrderComparator(lhs, rhs) ==
    IF lhs.price # rhs.price THEN lhs.price > rhs.price
    ELSE lhs.timestamp < rhs.timestamp

SellOrderComparatorNoTime(lhs, rhs) ==
    IF lhs.price # rhs.price THEN lhs.price < rhs.price
    ELSE lhs.timestamp > rhs.timestamp

\* SellOrderComparator::operator()
SellOrderComparator(lhs, rhs) ==
    IF lhs.price # rhs.price THEN lhs.price < rhs.price
    ELSE lhs.timestamp < rhs.timestamp

\* std::multiset::insert : the new element goes to the upper bound of its
\* equivalence range, i.e. before the first element it is strictly less than.
InsertAt(seq, pos, id) ==
    SubSeq(seq, 1, pos - 1) \o <<id>> \o SubSeq(seq, pos, Len(seq))

BuyInsertByArrival(ords, seq, id) ==
    LET later == {i \in 1..Len(seq) : ords[id].price > ords[seq[i]].price}
        pos == IF later = {} THEN Len(seq) + 1
               ELSE CHOOSE i \in later : \A j \in later : i <= j
    IN InsertAt(seq, pos, id)

BuyInsert(ords, seq, id) ==
    LET later == {i \in 1..Len(seq) : BuyOrderComparator(ords[id], ords[seq[i]])}
        pos == IF later = {} THEN Len(seq) + 1
               ELSE CHOOSE i \in later : \A j \in later : i <= j
    IN InsertAt(seq, pos, id)

SellInsert(ords, seq, id) ==
    LET later == {i \in 1..Len(seq) : SellOrderComparator(ords[id], ords[seq[i]])}
        pos == IF later = {} THEN Len(seq) + 1
               ELSE CHOOSE i \in later : \A j \in later : i <= j
    IN InsertAt(seq, pos, id)

BuyLimitStopsNever(buyOrder, sellOrder) == FALSE

BuyLimitStopsLax(buyOrder, sellOrder) ==
    buyOrder.type = "LIMIT" /\ buyOrder.price <= sellOrder.price

\* matchBuyOrder, the break of the loop (OrderBook.cpp:109)
BuyLimitStops(buyOrder, sellOrder) ==
    buyOrder.type = "LIMIT" /\ buyOrder.price < sellOrder.price

\* matchSellOrder, the break of the loop (OrderBook.cpp:156)
SellLimitStops(sellOrder, buyOrder) ==
    sellOrder.type = "LIMIT" /\ sellOrder.price > buyOrder.price

TradeQtyOfQuantity(remainingQty, resting) == Min(remainingQty, resting.quantity)

\* tradeQty (OrderBook.cpp:114 and :161)
TradeQty(remainingQty, resting) == Min(remainingQty, getRemainingQuantity(resting))

BuyTradeOfAggressor(buyOrder, sellOrder, tradeQty) ==
    Trade(buyOrder.id, sellOrder.id, buyOrder.price, tradeQty)

\* the trade recorded by matchBuyOrder (OrderBook.cpp:122)
BuyTrade(buyOrder, sellOrder, tradeQty) ==
    Trade(buyOrder.id, sellOrder.id, sellOrder.price, tradeQty)

\* the trade recorded by matchSellOrder (OrderBook.cpp:169)
SellTrade(sellOrder, buyOrder, tradeQty) ==
    Trade(buyOrder.id, sellOrder.id, buyOrder.price, tradeQty)

\* The book as a value: b.orders, b.buy, b.sell, b.map; the loops add
\* b.trades (the local vector) and b.remainingQty (the local counter).
RECURSIVE matchBuyLoop(_, _)
matchBuyLoop(b, id) ==
    IF b.remainingQty > 0 /\ b.sell # <<>>
    THEN LET sid == Head(b.sell)
             buyOrder == b.orders[id]
             sellOrder == b.orders[sid]
         IN IF BuyLimitStops(buyOrder, sellOrder)
            THEN b
            ELSE LET tradeQty == TradeQty(b.remainingQty, sellOrder)
                     o1 == [b.orders EXCEPT ![id] = fill(buyOrder, tradeQty)]
                     o2 == [o1 EXCEPT ![sid] = fill(o1[sid], tradeQty)]
                     gone == o2[sid].status = "FILLED"
                 IN matchBuyLoop(
                        [orders |-> o2,
                         buy |-> b.buy,
                         sell |-> IF gone THEN Tail(b.sell) ELSE b.sell,
                         map |-> IF gone THEN b.map \ {sid} ELSE b.map,
                         trades |-> Append(b.trades, BuyTrade(buyOrder, sellOrder, tradeQty)),
                         remainingQty |-> b.remainingQty - tradeQty], id)
    ELSE b

\* OrderBook::matchBuyOrder
matchBuyOrder(b, id) ==
    LET r == matchBuyLoop([b EXCEPT !.remainingQty = b.orders[id].quantity], id)
    IN IF r.orders[id].type = "MARKET" /\ r.remainingQty > 0
       THEN [r EXCEPT !.orders[id] = cancel(r.orders[id])]
       ELSE r

RECURSIVE matchSellLoop(_, _)
matchSellLoop(b, id) ==
    IF b.remainingQty > 0 /\ b.buy # <<>>
    THEN LET bid == Head(b.buy)
             sellOrder == b.orders[id]
             buyOrder == b.orders[bid]
         IN IF SellLimitStops(sellOrder, buyOrder)
            THEN b
            ELSE LET tradeQty == TradeQty(b.remainingQty, buyOrder)
                     o1 == [b.orders EXCEPT ![id] = fill(sellOrder, tradeQty)]
                     o2 == [o1 EXCEPT ![bid] = fill(o1[bid], tradeQty)]
                     gone == o2[bid].status = "FILLED"
                 IN matchSellLoop(
                        [orders |-> o2,
                         buy |-> IF gone THEN Tail(b.buy) ELSE b.buy,
                         sell |-> b.sell,
                         map |-> IF gone THEN b.map \ {bid} ELSE b.map,
                         trades |-> Append(b.trades, SellTrade(sellOrder, buyOrder, tradeQty)),
                         remainingQty |-> b.remainingQty - tradeQty], id)
    ELSE b

\* OrderBook::matchSellOrder
matchSellOrder(b, id) ==
    LET r == matchSellLoop([b EXCEPT !.remainingQty = b.orders[id].quantity], id)
    IN IF r.orders[id].type = "MARKET" /\ r.remainingQty > 0
       THEN [r EXCEPT !.orders[id] = cancel(r.orders[id])]
       ELSE r

RestOrderNoIndex(m, id) ==
    LET order == m.orders[id]
    IN IF getRemainingQuantity(order) > 0 /\ order.status # "CANCELED" /\ order.type = "LIMIT"
       THEN [m EXCEPT !.buy = IF order.side = "BUY" THEN BuyInsert(m.orders, m.buy, id) ELSE m.buy,
                      !.sell = IF order.side = "BUY" THEN m.sell ELSE SellInsert(m.orders, m.sell, id)]
       ELSE m

RestOrderFilledToo(m, id) ==
    LET order == m.orders[id]
    IN IF order.status # "CANCELED" /\ order.type = "LIMIT"
       THEN [m EXCEPT !.buy = IF order.side = "BUY" THEN BuyInsert(m.orders, m.buy, id) ELSE m.buy,
                      !.sell = IF order.side = "BUY" THEN m.sell ELSE SellInsert(m.orders, m.sell, id),
                      !.map = m.map \cup {id}]
       ELSE m

RestOrderAnyType(m, id) ==
    LET order == m.orders[id]
    IN IF getRemainingQuantity(order) > 0
       THEN [m EXCEPT !.buy = IF order.side = "BUY" THEN BuyInsert(m.orders, m.buy, id) ELSE m.buy,
                      !.sell = IF order.side = "BUY" THEN m.sell ELSE SellInsert(m.orders, m.sell, id),
                      !.map = m.map \cup {id}]
       ELSE m

\* OrderBook::addOrder after the matching: a limit order with a remainder rests
RestOrder(m, id) ==
    LET order == m.orders[id]
    IN IF getRemainingQuantity(order) > 0 /\ order.status # "CANCELED" /\ order.type = "LIMIT"
       THEN [m EXCEPT !.buy = IF order.side = "BUY" THEN BuyInsert(m.orders, m.buy, id) ELSE m.buy,
                      !.sell = IF order.side = "BUY" THEN m.sell ELSE SellInsert(m.orders, m.sell, id),
                      !.map = m.map \cup {id}]
       ELSE m

\* OrderBook::addOrder, the part run under the exclusive lock
addOrder(ords, buy, sell, map, id) ==
    LET b0 == [orders |-> ords, buy |-> buy, sell |-> sell, map |-> map,
               trades |-> <<>>, remainingQty |-> 0]
        m == IF ords[id].side = "BUY" THEN matchBuyOrder(b0, id) ELSE matchSellOrder(b0, id)
    IN RestOrder(m, id)

\* The matching loops one statement group at a time, for the threads that run
\* them under the lock while other threads run.
\* the resting order an iteration looks at: begin() of the opposite side
MatchHead(b, id) == IF b.orders[id].side = "BUY" THEN Head(b.sell) ELSE Head(b.buy)

\* the loop condition holds and the limit check does not break
MatchContinues(b, id) ==
    LET o == b.orders[id]
    IN IF o.side = "BUY"
       THEN b.remainingQty > 0 /\ b.sell # <<>> /\ ~BuyLimitStops(o, b.orders[Head(b.sell)])
       ELSE b.remainingQty > 0 /\ b.buy # <<>> /\ ~SellLimitStops(o, b.orders[Head(b.buy)])

\* one iteration up to trades.push_back: tradeQty, the two fills, remainingQty
MatchFill(b, id) ==
    LET o == b.orders[id]
        rid == MatchHead(b, id)
        resting == b.orders[rid]
        tradeQty == TradeQty(b.remainingQty, resting)
        o1 == [b.orders EXCEPT ![id] = fill(o, tradeQty)]
        o2 == [o1 EXCEPT ![rid] = fill(o1[rid], tradeQty)]
        trade == IF o.side = "BUY" THEN BuyTrade(o, resting, tradeQty)
                 ELSE SellTrade(o, resting, tradeQty)
    IN [b EXCEPT !.orders = o2,
                 !.trades = Append(b.trades, trade),
                 !.remainingQty = b.remainingQty - tradeQty]

\* the end of an iteration: the resting order is erased if it is FILLED
MatchErase(b, id) ==
    LET rid == MatchHead(b, id)
    IN IF b.orders[rid].status = "FILLED"
       THEN [b EXCEPT !.buy = IF b.orders[id].side = "BUY" THEN b.buy ELSE Tail(b.buy),
                      !.sell = IF b.orders[id].side = "BUY" THEN Tail(b.sell) ELSE b.sell,
                      !.map = b.map \ {rid}]
       ELSE b

\* after the loop: a market order with a remainder is cancelled
MatchEnd(b, id) ==
    IF b.orders[id].type = "MARKET" /\ b.remainingQty > 0
    THEN [b EXCEPT !.orders[id] = cancel(b.orders[id])]
    ELSE b

\* the statistics update of processOrderSync (MatchingEngine.cpp:66-70)
RECURSIVE SumQuantity(_)
SumQuantity(trades) ==
    IF trades = <<>> THEN 0 ELSE Head(trades).quantity + SumQuantity(Tail(trades))

UpdateStatsAssigns(s, trades) ==
    [totalOrdersProcessed |-> s.totalOrdersProcessed + 1,
     totalTradesExecuted |-> Len(trades),
     totalQuantityTraded |-> SumQuantity(trades)]

UpdateStatsCountsCalls(s, trades) ==
    [totalOrdersProcessed |-> s.totalOrdersProcessed + 1,
     totalTradesExecuted |-> s.totalTradesExecuted + 1,
     totalQuantityTraded |-> s.totalQuantityTraded + SumQuantity(trades)]

UpdateStats(s, trades) ==
    [totalOrdersProcessed |-> s.totalOrdersProcessed + 1,
     totalTradesExecuted |-> s.totalTradesExecuted + Len(trades),
     totalQuantityTraded |-> s.totalQuantityTraded + SumQuantity(trades)]

\* ------------------------------------------------------------------ initial state
InitWith(n) ==
    /\ orders = <<>>
    /\ buyOrders_ = <<>>
    /\ sellOrders_ = <<>>
    /\ orderMap_ = {}
    /\ bookLock = 0
    /\ tradeLog = <<>>
    /\ lastCall = [id |-> 0, trades |-> <<>>]
    /\ stats_ = [totalOrdersProcessed |-> 0, totalTradesExecuted |-> 0, totalQuantityTraded |-> 0]
    /\ running_ = FALSE
    /\ numWorkers_ = n
    /\ wpc = [w \in Workers |-> "none"]
    /\ worder = [w \in Workers |-> 0]
    /\ wtrades = [w \in Workers |-> <<>>]
    /\ queue_ = <<>>
    /\ shutdown_ = FALSE
    /\ mpc = "idle"
    /\ ppc = "idle"
    /\ porder = 0
    /\ starts = 0
    /\ accepted = <<>>
    /\ processed = <<>>
    /\ received = [c \in Workers |-> <<>>]
    /\ wremaining = [w \in Workers |-> 0]
    /\ readers = {}
    /\ lastFill = [id |-> 0, quantity |-> 0, returned |-> FALSE]

\* MatchingEngine::MatchingEngine(numWorkers)
Init == \E n \in Workers : InitWith(n)

\* the engine of the sequential demos: MatchingEngine(1), never started
InitBook == InitWith(1)

\* ------------------------------------------------------------------ match_now, single caller
\* A caller constructs an order and passes it to processOrderSync on an engine
\* with no worker running: addOrder under the lock, the callbacks, the counters.
ProcessOrderSync(id, side, type, price, quantity, ts) ==
    /\ id \notin DOMAIN orders
    /\ bookLock = 0
    /\ LET ords == (id :> NewOrder(id, side, type, price, quantity, ts)) @@ orders
           r == addOrder(ords, buyOrders_, sellOrders_, orderMap_, id)
       IN /\ orders' = r.orders
          /\ buyOrders_' = r.buy
          /\ sellOrders_' = r.sell
          /\ orderMap_' = r.map
          /\ tradeLog' = tradeLog \o r.trades
          /\ lastCall' = [id |-> id, trades |-> r.trades]
          /\ stats_' = UpdateStats(stats_, r.trades)
    /\ UNCHANGED <<bookLock>>
    /\ UNCHANGED engineVars
    /\ UNCHANGED auxVars

NextBook ==
    \E id \in Ids, side \in Sides, type \in Types, price \in Prices,
       quantity \in Quantities, ts \in Timestamps :
        ProcessOrderSync(id, side, type, price, quantity, ts)

SpecBook == InitBook /\ [][NextBook]_vars

\* ------------------------------------------------------------------ the application's calls on orders
\* One thread of the application constructs orders (zero quantity included),
\* keeps their pointers, and calls Order::cancel, Order::fill and
\* OrderBook::addOrder on them in any order; each order is admitted once.
FillQuantities == 0..(MaxQty + 1)

\* Order::createOrder: the next id, the current time
CreateOrder(side, type, price, quantity) ==
    /\ Cardinality(DOMAIN orders) < MaxSubmits
    /\ LET id == Cardinality(DOMAIN orders) + 1
       IN orders' = (id :> NewOrder(id, side, type, price, quantity, id)) @@ orders
    /\ UNCHANGED <<buyOrders_, sellOrders_, orderMap_, bookLock, tradeLog, lastCall, stats_>>
    /\ UNCHANGED engineVars
    /\ UNCHANGED auxVars

\* order->cancel() through the pointer the application holds
CancelCall(id) ==
    /\ id \in DOMAIN orders
    /\ orders' = [orders EXCEPT ![id] = cancel(orders[id])]
    /\ UNCHANGED <<buyOrders_, sellOrders_, orderMap_, bookLock, tradeLog, lastCall, stats_>>
    /\ UNCHANGED engineVars
    /\ UNCHANGED auxVars

\* order->fill(q) through the pointer the application holds
FillCall(id, q) ==
    /\ id \in DOMAIN orders
    /\ orders' = [orders EXCEPT ![id] = fill(orders[id], q)]
    /\ lastFill' = [id |-> id, quantity |-> q, returned |-> fillReturns(orders[id], q)]
    /\ UNCHANGED <<buyOrders_, sellOrders_, orderMap_, bookLock, tradeLog, lastCall, stats_>>
    /\ UNCHANGED engineVars
    /\ UNCHANGED <<received, wremaining, readers>>

\* OrderBook::addOrder on an order not admitted before, with a callback that
\* logs the trades
AddOrderCall(id) ==
    /\ id \in DOMAIN orders
    /\ \A i \in 1..Len(processed) : processed[i] # id
    /\ bookLock = 0
    /\ LET r == addOrder(orders, buyOrders_, sellOrders_, orderMap_, id)
       IN /\ orders' = r.orders
          /\ buyOrders_' = r.buy
          /\ sellOrders_' = r.sell
          /\ orderMap_' = r.map
          /\ tradeLog' = tradeLog \o r.trades
          /\ lastCall' = [id |-> id, trades |-> r.trades]
    /\ processed' = Append(processed, id)
    /\ UNCHANGED <<bookLock, stats_>>
    /\ UNCHANGED <<running_, numWorkers_, wpc, worder, wtrades, queue_, shutdown_, mpc, ppc, porder, starts, accepted>>
    /\ UNCHANGED auxVars

NextOrderCalls ==
    \/ \E side \in Sides, type \in Types, price \in Prices, quantity \in 0..MaxQty :
          CreateOrder(side, type, price, quantity)
    \/ \E id \in Ids : CancelCall(id)
    \/ \E id \in Ids, q \in FillQuantities : FillCall(id, q)
    \/ \E id \in Ids : AddOrderCall(id)

SpecOrderCalls == InitBook /\ [][NextOrderCalls]_vars

\* ------------------------------------------------------------------ orders admitted more than once
\* The benchmark driver keeps its orders in a vector and passes the same
\* objects to processOrderSync again and again (main.cpp:184-189).
\* OrderBook::addOrder on any order the application holds, admitted before or not
AdmitCall(id) ==
    /\ id \in DOMAIN orders
    /\ Len(processed) < MaxCalls
    /\ bookLock = 0
    /\ LET r == addOrder(orders, buyOrders_, sellOrders_, orderMap_, id)
       IN /\ orders' = r.orders
          /\ buyOrders_' = r.buy
          /\ sellOrders_' = r.sell
          /\ orderMap_' = r.map
          /\ tradeLog' = tradeLog \o r.trades
          /\ lastCall' = [id |-> id, trades |-> r.trades]
    /\ processed' = Append(processed, id)
    /\ UNCHANGED <<bookLock, stats_>>
    /\ UNCHANGED <<running_, numWorkers_, wpc, worder, wtrades, queue_, shutdown_, mpc, ppc, porder, starts, accepted>>
    /\ UNCHANGED auxVars

NextReadmit ==
    \/ \E side \in Sides, type \in Types, price \in Prices, quantity \in Quantities :
          CreateOrder(side, type, price, quantity)
    \/ \E id \in Ids : AdmitCall(id)

SpecReadmit == InitBook /\ [][NextReadmit]_vars

\* ------------------------------------------------------------------ OrderQueue
DequeueTakeLast(q) == [order |-> q[Len(q)], rest |-> SubSeq(q, 1, Len(q) - 1)]

DequeueTakePeek(q) == [order |-> Head(q), rest |-> q]

\* queue_.front() and queue_.pop() of dequeue (OrderQueue.hpp:62-64)
DequeueTake(q) == [order |-> Head(q), rest |-> Tail(q)]

DequeueReadyNoShutdown == queue_ # <<>>

\* the predicate dequeue waits for on the condition variable (OrderQueue.hpp:57)
DequeueReady == queue_ # <<>> \/ shutdown_

DequeueReturnsNullOnShutdown == shutdown_

\* dequeue returns nullptr (OrderQueue.hpp:59)
DequeueReturnsNull == shutdown_ /\ queue_ = <<>>

\* The queue on its own: any number of producers call enqueue (the calls are
\* serialised by mutex_, so they are one action), the consumers call dequeue
\* and tryDequeue, anyone calls shutdown.  received[c] logs what each call of
\* consumer c returned (order 0: nullptr or nullopt).
Returned(call, order) == [call |-> call, order |-> order]

\* OrderQueue::enqueue of an order not enqueued before
Enqueue(id) ==
    /\ \A i \in 1..Len(accepted) : accepted[i] # id
    /\ queue_' = Append(queue_, id)
    /\ accepted' = Append(accepted, id)
    /\ UNCHANGED <<running_, numWorkers_, wpc, worder, wtrades, shutdown_, mpc, ppc, porder, starts, processed>>
    /\ UNCHANGED <<received, wremaining, readers, lastFill>>
    /\ UNCHANGED bookVars

\* OrderQueue::tryDequeue
TryDequeue(c) ==
    /\ Len(received[c]) < MaxCalls
    /\ IF queue_ = <<>>
       THEN /\ received' = [received EXCEPT ![c] = Append(@, Returned("tryDequeue", 0))]
            /\ UNCHANGED queue_
       ELSE /\ received' = [received EXCEPT ![c] = Append(@, Returned("tryDequeue", DequeueTake(queue_).order))]
            /\ queue_' = DequeueTake(queue_).rest
    /\ UNCHANGED <<running_, numWorkers_, wpc, worder, wtrades, shutdown_, mpc, ppc, porder, starts, accepted, processed>>
    /\ UNCHANGED <<wremaining, readers, lastFill>>
    /\ UNCHANGED bookVars

\* OrderQueue::dequeue: returns once the wait predicate holds
Dequeue(c) ==
    /\ Len(received[c]) < MaxCalls
    /\ DequeueReady
    /\ IF DequeueReturnsNull
       THEN /\ received' = [received EXCEPT ![c] = Append(@, Returned("dequeue", 0))]
            /\ UNCHANGED queue_
       ELSE /\ received' = [received EXCEPT ![c] = Append(@, Returned("dequeue", DequeueTake(queue_).order))]
            /\ queue_' = DequeueTake(queue_).rest
    /\ UNCHANGED <<running_, numWorkers_, wpc, worder, wtrades, shutdown_, mpc, ppc, porder, starts, accepted, processed>>
    /\ UNCHANGED <<wremaining, readers, lastFill>>
    /\ UNCHANGED bookVars

\* OrderQueue::shutdown
Shutdown ==
    /\ shutdown_' = TRUE
    /\ UNCHANGED <<running_, numWorkers_, wpc, worder, wtrades, queue_, mpc, ppc, porder, starts, accepted, processed>>
    /\ UNCHANGED auxVars
    /\ UNCHANGED bookVars

NextQueue ==
    \/ \E id \in Ids : Enqueue(id)
    \/ \E c \in Workers : TryDequeue(c)
    \/ \E c \in Workers : Dequeue(c)
    \/ Shutdown

\* OrderQueue as constructed: empty, shutdown_ false
InitQueue == InitWith(1)

SpecQueue == InitQueue /\ [][NextQueue]_vars

\* ------------------------------------------------------------------ MatchingEngine lifecycle
LiveWorkers == 1..numWorkers_

\* MatchingEngine::start on a stopped engine: set the flag, spawn the workers
Start ==
    /\ mpc = "idle"
    /\ ~running_
    /\ starts < MaxStarts
    /\ running_' = TRUE
    /\ wpc' = [w \in Workers |-> IF w \in LiveWorkers THEN "loop" ELSE wpc[w]]
    /\ starts' = starts + 1
    /\ UNCHANGED <<numWorkers_, worder, wtrades, queue_, shutdown_, mpc, ppc, porder, accepted, processed>>
    /\ UNCHANGED bookVars
    /\ UNCHANGED auxVars

\* workerThreads_: the threads spawned and not yet joined and cleared
WorkerThreads == {w \in Workers : wpc[w] # "none"}

StartRunningSpawns ==
    /\ mpc = "idle"
    /\ running_
    /\ \E w \in Workers : wpc[w] = "none"
    /\ wpc' = [w \in Workers |-> IF wpc[w] = "none" THEN "loop" ELSE wpc[w]]
    /\ UNCHANGED <<running_, numWorkers_, worder, wtrades, queue_, shutdown_, mpc, ppc, porder, starts, accepted, processed>>
    /\ UNCHANGED bookVars
    /\ UNCHANGED auxVars

\* MatchingEngine::start on a running engine returns at once
StartRunning ==
    /\ mpc = "idle"
    /\ running_
    /\ UNCHANGED vars

\* MatchingEngine::stop on a stopped engine returns at once
StopStopped ==
    /\ mpc = "idle"
    /\ ~running_
    /\ UNCHANGED vars

\* MatchingEngine::stop, running_ = false
StopBegin ==
    /\ mpc = "idle"
    /\ running_
    /\ running_' = FALSE
    /\ mpc' = "stop_shutdown"
    /\ UNCHANGED <<numWorkers_, wpc, worder, wtrades, queue_, shutdown_, ppc, porder, starts, accepted, processed>>
    /\ UNCHANGED bookVars
    /\ UNCHANGED auxVars

\* OrderQueue::shutdown, called by stop: set the flag under the mutex, notify_all
StopShutdown ==
    /\ mpc = "stop_shutdown"
    /\ shutdown_' = TRUE
    /\ mpc' = "stop_join"
    /\ UNCHANGED <<running_, numWorkers_, wpc, worder, wtrades, queue_, ppc, porder, starts, accepted, processed>>
    /\ UNCHANGED bookVars
    /\ UNCHANGED auxVars

StopJoinNoWait ==
    /\ mpc = "stop_join"
    /\ mpc' = "idle"
    /\ UNCHANGED <<running_, numWorkers_, wpc, worder, wtrades, queue_, shutdown_, ppc, porder, starts, accepted, processed>>
    /\ UNCHANGED bookVars
    /\ UNCHANGED auxVars

\* MatchingEngine::stop, the joins and workerThreads_.clear(): returns once every worker has exited
StopJoin ==
    /\ mpc = "stop_join"
    /\ \A w \in LiveWorkers : wpc[w] = "exited"
    /\ wpc' = [w \in Workers |-> "none"]
    /\ mpc' = "idle"
    /\ UNCHANGED <<running_, numWorkers_, worder, wtrades, queue_, shutdown_, ppc, porder, starts, accepted, processed>>
    /\ UNCHANGED bookVars
    /\ UNCHANGED auxVars

\* ------------------------------------------------------------------ producer
\* orderProducer: Order::createRandomOrder (a limit order with the next id of
\* the generator), then submitOrder.  The single producer constructs its orders
\* one after the other, so their timestamps increase with their ids.
\* MatchingEngine::submitOrder, the running_ check passed
SubmitCheck(side, price, quantity) ==
    /\ ppc \in {"idle", "error"}
    /\ running_
    /\ Cardinality(DOMAIN orders) < MaxSubmits
    /\ LET id == Cardinality(DOMAIN orders) + 1
       IN /\ orders' = (id :> NewOrder(id, side, "LIMIT", price, quantity, id)) @@ orders
          /\ porder' = id
    /\ ppc' = "enqueue"
    /\ UNCHANGED <<buyOrders_, sellOrders_, orderMap_, bookLock, tradeLog, lastCall, stats_>>
    /\ UNCHANGED <<running_, numWorkers_, wpc, worder, wtrades, queue_, shutdown_, mpc, starts, accepted, processed>>
    /\ UNCHANGED auxVars

SubmitNotRunningEnqueues ==
    /\ ppc \in {"idle", "error"}
    /\ ~running_
    /\ Cardinality(DOMAIN orders) < MaxSubmits
    /\ LET id == Cardinality(DOMAIN orders) + 1
       IN /\ orders' = (id :> NewOrder(id, "BUY", "LIMIT", 1, 1, id)) @@ orders
          /\ porder' = id
    /\ ppc' = "enqueue"
    /\ UNCHANGED <<buyOrders_, sellOrders_, orderMap_, bookLock, tradeLog, lastCall, stats_>>
    /\ UNCHANGED <<running_, numWorkers_, wpc, worder, wtrades, queue_, shutdown_, mpc, starts, accepted, processed>>
    /\ UNCHANGED auxVars

\* MatchingEngine::submitOrder on an engine that is not running: throws
\* std::runtime_error before the queue is touched; the producer is left with
\* the error (ppc = "error") and may call again
SubmitNotRunning ==
    /\ ppc \in {"idle", "error"}
    /\ ~running_
    /\ ppc' = "error"
    /\ UNCHANGED <<running_, numWorkers_, wpc, worder, wtrades, queue_, shutdown_, mpc, porder, starts, accepted, processed>>
    /\ UNCHANGED bookVars
    /\ UNCHANGED auxVars

\* OrderQueue::enqueue: push under the mutex, notify_one
SubmitEnqueue ==
    /\ ppc = "enqueue"
    /\ queue_' = Append(queue_, porder)
    /\ accepted' = Append(accepted, porder)
    /\ ppc' = "idle"
    /\ porder' = 0
    /\ UNCHANGED <<running_, numWorkers_, wpc, worder, wtrades, shutdown_, mpc, starts, processed>>
    /\ UNCHANGED bookVars
    /\ UNCHANGED auxVars

\* ------------------------------------------------------------------ workers
\* workerFunction: while (running_)
WorkerLoop(w) ==
    /\ wpc[w] = "loop"
    /\ wpc' = [wpc EXCEPT ![w] = IF running_ THEN "dequeue" ELSE "exited"]
    /\ UNCHANGED <<running_, numWorkers_, worder, wtrades, queue_, shutdown_, mpc, ppc, porder, starts, accepted, processed>>
    /\ UNCHANGED bookVars
    /\ UNCHANGED auxVars

AfterDequeueIfRunning(order) == IF order = 0 \/ ~running_ THEN "exited" ELSE "process"

\* workerFunction: if (!order) break (MatchingEngine.cpp:84)
AfterDequeue(order) == IF order = 0 THEN "exited" ELSE "process"

\* OrderQueue::dequeue: blocks until the predicate holds, then returns nullptr
\* (shutdown and empty) or pops the head
WorkerDequeue(w) ==
    /\ wpc[w] = "dequeue"
    /\ DequeueReady
    /\ LET order == IF DequeueReturnsNull THEN 0 ELSE DequeueTake(queue_).order
       IN /\ queue_' = IF DequeueReturnsNull THEN queue_ ELSE DequeueTake(queue_).rest
          /\ wpc' = [wpc EXCEPT ![w] = AfterDequeue(order)]
          /\ worder' = [worder EXCEPT ![w] = IF AfterDequeue(order) = "process" THEN order ELSE 0]
    /\ UNCHANGED <<running_, numWorkers_, wtrades, shutdown_, mpc, ppc, porder, starts, accepted, processed>>
    /\ UNCHANGED bookVars
    /\ UNCHANGED auxVars

\* processOrderSync -> OrderBook::addOrder: the exclusive lock is acquired
WorkerLock(w) ==
    /\ wpc[w] = "process"
    /\ bookLock = 0
    /\ bookLock' = w
    /\ wpc' = [wpc EXCEPT ![w] = "locked"]
    /\ processed' = Append(processed, worder[w])
    /\ UNCHANGED <<orders, buyOrders_, sellOrders_, orderMap_, tradeLog, lastCall, stats_>>
    /\ UNCHANGED <<running_, numWorkers_, worder, wtrades, queue_, shutdown_, mpc, ppc, porder, starts, accepted>>
    /\ UNCHANGED auxVars

\* OrderBook::addOrder under the lock: matching, the callbacks, resting, unlock
WorkerAddOrder(w) ==
    /\ wpc[w] = "locked"
    /\ bookLock = w
    /\ LET r == addOrder(orders, buyOrders_, sellOrders_, orderMap_, worder[w])
       IN /\ orders' = r.orders
          /\ buyOrders_' = r.buy
          /\ sellOrders_' = r.sell
          /\ orderMap_' = r.map
          /\ tradeLog' = tradeLog \o r.trades
          /\ lastCall' = [id |-> worder[w], trades |-> r.trades]
          /\ wtrades' = [wtrades EXCEPT ![w] = r.trades]
    /\ bookLock' = 0
    /\ wpc' = [wpc EXCEPT ![w] = "stats"]
    /\ UNCHANGED <<stats_>>
    /\ UNCHANGED <<running_, numWorkers_, worder, queue_, shutdown_, mpc, ppc, porder, starts, accepted, processed>>
    /\ UNCHANGED auxVars

\* processOrderSync: the atomic counters, after the lock is released
WorkerStats(w) ==
    /\ wpc[w] = "stats"
    /\ stats_' = UpdateStats(stats_, wtrades[w])
    /\ wpc' = [wpc EXCEPT ![w] = "loop"]
    /\ worder' = [worder EXCEPT ![w] = 0]
    /\ wtrades' = [wtrades EXCEPT ![w] = <<>>]
    /\ UNCHANGED <<orders, buyOrders_, sellOrders_, orderMap_, bookLock, tradeLog, lastCall>>
    /\ UNCHANGED <<running_, numWorkers_, queue_, shutdown_, mpc, ppc, porder, starts, accepted, processed>>
    /\ UNCHANGED auxVars

WorkerStep(w) ==
    \/ WorkerLoop(w)
    \/ WorkerDequeue(w)
    \/ WorkerLock(w)
    \/ WorkerAddOrder(w)
    \/ WorkerStats(w)

NextEngine ==
    \/ Start
    \/ StartRunning
    \/ StopStopped
    \/ StopBegin
    \/ StopShutdown
    \/ StopJoin
    \/ \E side \in Sides, price \in Prices, quantity \in Quantities :
          SubmitCheck(side, price, quantity)
    \/ SubmitNotRunning
    \/ SubmitEnqueue
    \/ \E w \in Workers : WorkerStep(w)

SpecEngine == Init /\ [][NextEngine]_vars

\* processOrderSync called directly by a thread of the application while the
\* engine is in any lifecycle state: the order is constructed by the caller
\* (next id, current time) and matched at once, without passing the queue
MatchNow(side, type, price, quantity) ==
    /\ Cardinality(DOMAIN orders) < MaxSubmits
    /\ ProcessOrderSync(Cardinality(DOMAIN orders) + 1, side, type, price, quantity,
                        Cardinality(DOMAIN orders) + 1)

NextEngineMixed ==
    \/ NextEngine
    \/ \E side \in Sides, type \in Types, price \in Prices, quantity \in Quantities :
          MatchNow(side, type, price, quantity)

SpecEngineMixed == Init /\ [][NextEngineMixed]_vars

\* ------------------------------------------------------------------ concurrent callers and readers
\* Threads of the application call processOrderSync at the same time (a worker
\* past its dequeue runs the same code) while other threads call the readers
\* of the book.  addOrder is taken one statement group at a time.
idleEngineVars == <<running_, numWorkers_, queue_, shutdown_, mpc, ppc, porder, starts,
                    accepted, received, lastFill>>

\* the book as the thread inside addOrder sees it, with its two locals
ThreadBook(t) ==
    [orders |-> orders, buy |-> buyOrders_, sell |-> sellOrders_, map |-> orderMap_,
     trades |-> wtrades[t], remainingQty |-> wremaining[t]]

onTradeTwice(log, trade) == Append(Append(log, trade), trade)

\* MatchingEngine::onTrade: the trade is forwarded to the registered callback
onTrade(log, trade) == Append(log, trade)

\* a thread constructs an order (next id, current time) and calls processOrderSync
CallerCall(t, side, type, price, quantity) ==
    /\ wpc[t] = "none"
    /\ Cardinality(DOMAIN orders) < MaxOrders
    /\ LET id == Cardinality(DOMAIN orders) + 1
       IN /\ orders' = (id :> NewOrder(id, side, type, price, quantity, id)) @@ orders
          /\ worder' = [worder EXCEPT ![t] = id]
    /\ wpc' = [wpc EXCEPT ![t] = "process"]
    /\ UNCHANGED <<buyOrders_, sellOrders_, orderMap_, bookLock, tradeLog, lastCall, stats_>>
    /\ UNCHANGED <<wtrades, processed, wremaining, readers>>
    /\ UNCHANGED idleEngineVars

CallerLockNoExclusion(t) ==
    /\ wpc[t] = "process"
    /\ bookLock' = t
    /\ processed' = Append(processed, worder[t])
    /\ wremaining' = [wremaining EXCEPT ![t] = orders[worder[t]].quantity]
    /\ wtrades' = [wtrades EXCEPT ![t] = <<>>]
    /\ wpc' = [wpc EXCEPT ![t] = "match"]
    /\ UNCHANGED <<orders, buyOrders_, sellOrders_, orderMap_, tradeLog, lastCall, stats_>>
    /\ UNCHANGED <<worder, readers>>
    /\ UNCHANGED idleEngineVars

\* addOrder: the unique_lock is granted when no thread holds mutex_ in either
\* mode; matchBuyOrder / matchSellOrder initialise their locals
CallerLock(t) ==
    /\ wpc[t] = "process"
    /\ bookLock = 0
    /\ readers = {}
    /\ bookLock' = t
    /\ processed' = Append(processed, worder[t])
    /\ wremaining' = [wremaining EXCEPT ![t] = orders[worder[t]].quantity]
    /\ wtrades' = [wtrades EXCEPT ![t] = <<>>]
    /\ wpc' = [wpc EXCEPT ![t] = "match"]
    /\ UNCHANGED <<orders, buyOrders_, sellOrders_, orderMap_, tradeLog, lastCall, stats_>>
    /\ UNCHANGED <<worder, readers>>
    /\ UNCHANGED idleEngineVars

CallerFillThenUnlock(t) ==
    /\ wpc[t] = "match"
    /\ MatchContinues(ThreadBook(t), worder[t])
    /\ LET r == MatchFill(ThreadBook(t), worder[t])
       IN /\ orders' = r.orders
          /\ wtrades' = [wtrades EXCEPT ![t] = r.trades]
          /\ wremaining' = [wremaining EXCEPT ![t] = r.remainingQty]
    /\ bookLock' = 0
    /\ wpc' = [wpc EXCEPT ![t] = "callback"]
    /\ UNCHANGED <<buyOrders_, sellOrders_, orderMap_, tradeLog, lastCall, stats_>>
    /\ UNCHANGED <<worder, processed, readers>>
    /\ UNCHANGED idleEngineVars

\* one loop iteration up to trades.push_back(trade)
CallerFill(t) ==
    /\ wpc[t] = "match"
    /\ MatchContinues(ThreadBook(t), worder[t])
    /\ LET r == MatchFill(ThreadBook(t), worder[t])
       IN /\ orders' = r.orders
          /\ wtrades' = [wtrades EXCEPT ![t] = r.trades]
          /\ wremaining' = [wremaining EXCEPT ![t] = r.remainingQty]
    /\ wpc' = [wpc EXCEPT ![t] = "callback"]
    /\ UNCHANGED <<buyOrders_, sellOrders_, orderMap_, bookLock, tradeLog, lastCall, stats_>>
    /\ UNCHANGED <<worder, processed, readers>>
    /\ UNCHANGED idleEngineVars

\* tradeCallback(trade): the lambda of processOrderSync calls onTrade
CallerCallback(t) ==
    /\ wpc[t] = "callback"
    /\ tradeLog' = onTrade(tradeLog, wtrades[t][Len(wtrades[t])])
    /\ wpc' = [wpc EXCEPT ![t] = "erase"]
    /\ UNCHANGED <<orders, buyOrders_, sellOrders_, orderMap_, bookLock, lastCall, stats_>>
    /\ UNCHANGED <<worder, wtrades, processed, wremaining, readers>>
    /\ UNCHANGED idleEngineVars

\* the end of the iteration: erase the resting order if it is FILLED
CallerErase(t) ==
    /\ wpc[t] = "erase"
    /\ LET r == MatchErase(ThreadBook(t), worder[t])
       IN /\ buyOrders_' = r.buy
          /\ sellOrders_' = r.sell
          /\ orderMap_' = r.map
    /\ wpc' = [wpc EXCEPT ![t] = "match"]
    /\ UNCHANGED <<orders, bookLock, tradeLog, lastCall, stats_>>
    /\ UNCHANGED <<worder, wtrades, processed, wremaining, readers>>
    /\ UNCHANGED idleEngineVars

\* the loop is left: cancel of an unfilled market order, the insert of
\* addOrder, return (the lock is released)
CallerFinish(t) ==
    /\ wpc[t] = "match"
    /\ ~MatchContinues(ThreadBook(t), worder[t])
    /\ LET r == RestOrder(MatchEnd(ThreadBook(t), worder[t]), worder[t])
       IN /\ orders' = r.orders
          /\ buyOrders_' = r.buy
          /\ sellOrders_' = r.sell
          /\ orderMap_' = r.map
          /\ lastCall' = [id |-> worder[t], trades |-> r.trades]
    /\ bookLock' = 0
    /\ wpc' = [wpc EXCEPT ![t] = "stats"]
    /\ UNCHANGED <<tradeLog, stats_>>
    /\ UNCHANGED <<worder, wtrades, processed, wremaining, readers>>
    /\ UNCHANGED idleEngineVars

\* processOrderSync: the counters, then return to the caller
CallerStats(t) ==
    /\ wpc[t] = "stats"
    /\ stats_' = UpdateStats(stats_, wtrades[t])
    /\ wpc' = [wpc EXCEPT ![t] = "none"]
    /\ worder' = [worder EXCEPT ![t] = 0]
    /\ wtrades' = [wtrades EXCEPT ![t] = <<>>]
    /\ wremaining' = [wremaining EXCEPT ![t] = 0]
    /\ UNCHANGED <<orders, buyOrders_, sellOrders_, orderMap_, bookLock, tradeLog, lastCall>>
    /\ UNCHANGED <<processed, readers>>
    /\ UNCHANGED idleEngineVars

ReaderLockNoWait(r) ==
    /\ r \notin readers
    /\ readers' = readers \cup {r}
    /\ UNCHANGED bookVars
    /\ UNCHANGED <<wpc, worder, wtrades, processed, wremaining>>
    /\ UNCHANGED idleEngineVars

\* a reader (getBestBidPrice, getBestAskPrice, getBuyOrderCount,
\* getSellOrderCount, toString): the shared_lock is granted when no thread
\* holds mutex_ exclusively
ReaderLock(r) ==
    /\ r \notin readers
    /\ bookLock = 0
    /\ readers' = readers \cup {r}
    /\ UNCHANGED bookVars
    /\ UNCHANGED <<wpc, worder, wtrades, processed, wremaining>>
    /\ UNCHANGED idleEngineVars

\* the reader returns what it read; its shared_lock is released
ReaderUnlock(r) ==
    /\ r \in readers
    /\ readers' = readers \ {r}
    /\ UNCHANGED bookVars
    /\ UNCHANGED <<wpc, worder, wtrades, processed, wremaining>>
    /\ UNCHANGED idleEngineVars

\* The readers, on the book a thread holding the shared lock looks at.
\* OrderBook::getBestBidPrice (0.0 on an empty side)
getBestBidPrice(b) == IF b.buy = <<>> THEN 0 ELSE b.orders[Head(b.buy)].price

\* OrderBook::getBestAskPrice (numeric_limits<double>::max() on an empty
\* side, a value above every price)
getBestAskPrice(b) == IF b.sell = <<>> THEN MaxPrice + 1 ELSE b.orders[Head(b.sell)].price

\* OrderBook::getBuyOrderCount
getBuyOrderCount(b) == Len(b.buy)

\* OrderBook::getSellOrderCount
getSellOrderCount(b) == Len(b.sell)

\* OrderBook::toString: price x remaining quantity of the first five orders of
\* each side
toString(b) ==
    [buy |-> [i \in 1..Min(Len(b.buy), ToStringLevels) |->
                 <<b.orders[b.buy[i]].price, getRemainingQuantity(b.orders[b.buy[i]])>>],
     sell |-> [i \in 1..Min(Len(b.sell), ToStringLevels) |->
                 <<b.orders[b.sell[i]].price, getRemainingQuantity(b.orders[b.sell[i]])>>]]

NextConcurrent ==
    \/ \E t \in Workers, side \in Sides, type \in Types, price \in Prices, quantity \in Quantities :
          CallerCall(t, side, type, price, quantity)
    \/ \E t \in Workers : CallerLock(t)
    \/ \E t \in Workers : CallerFill(t)
    \/ \E t \in Workers : CallerCallback(t)
    \/ \E t \in Workers : CallerErase(t)
    \/ \E t \in Workers : CallerFinish(t)
    \/ \E t \in Workers : CallerStats(t)
    \/ \E r \in Readers : ReaderLock(r)
    \/ \E r \in Readers : ReaderUnlock(r)

\* an engine that was constructed and not started: the callers are threads of
\* the application
InitConcurrent == InitWith(1)

SpecConcurrent == InitConcurrent /\ [][NextConcurrent]_vars

\* ------------------------------------------------------------------ an observer that calls back into the book
\* The registered callback calls a reader of the book (or processOrderSync)
\* from inside the notification.  The calling thread holds mutex_ exclusively
\* and asks for it again: std::shared_mutex leaves that undefined.  The request
\* is never granted (the thread waits for itself, "blocked"), or the library
\* detects it and throws std::system_error, which leaves workerFunction
\* uncaught and ends the process ("terminated").
CallbackReenters(w) ==
    /\ wpc[w] = "callback"
    /\ tradeLog' = onTrade(tradeLog, wtrades[w][Len(wtrades[w])])
    /\ \E outcome \in {"blocked", "terminated"} : wpc' = [wpc EXCEPT ![w] = outcome]
    /\ UNCHANGED <<orders, buyOrders_, sellOrders_, orderMap_, bookLock, lastCall, stats_>>
    /\ UNCHANGED <<worder, wtrades, processed, wremaining, readers>>
    /\ UNCHANGED idleEngineVars

\* std::terminate was called: no thread of the process runs any more
Terminated == \E w \in Workers : wpc[w] = "terminated"

WhileAlive(A) == ~Terminated /\ A

NextEngineReentrant ==
    \/ WhileAlive(Start)
    \/ WhileAlive(StartRunning)
    \/ WhileAlive(StopStopped)
    \/ WhileAlive(StopBegin)
    \/ WhileAlive(StopShutdown)
    \/ WhileAlive(StopJoin)
    \/ \E side \in Sides, price \in Prices, quantity \in Quantities :
          WhileAlive(SubmitCheck(side, price, quantity))
    \/ WhileAlive(SubmitNotRunning)
    \/ WhileAlive(SubmitEnqueue)
    \/ \E w \in Workers : WhileAlive(WorkerLoop(w))
    \/ \E w \in Workers : WhileAlive(WorkerDequeue(w))
    \/ \E w \in Workers : WhileAlive(CallerLock(w))
    \/ \E w \in Workers : WhileAlive(CallerFill(w))
    \/ \E w \in Workers : WhileAlive(CallbackReenters(w))
    \/ \E w \in Workers : WhileAlive(CallerFinish(w))
    \/ \E w \in Workers : WhileAlive(WorkerStats(w))

SpecEngineReentrant == Init /\ [][NextEngineReentrant]_vars

\* The engine under a producer whose orders all have price 1 and quantity 1:
\* what stop() waits for does not depend on what the orders trade.
NextEngineUnit ==
    \/ Start
    \/ StartRunning
    \/ StopStopped
    \/ StopBegin
    \/ StopShutdown
    \/ StopJoin
    \/ \E side \in Sides : SubmitCheck(side, 1, 1)
    \/ SubmitNotRunning
    \/ SubmitEnqueue
    \/ \E w \in Workers : WorkerStep(w)

\* Threads are scheduled fairly: a worker that can take its next step takes it,
\* and stop(), once called, keeps running.
FairSpecEngine ==
    /\ Init
    /\ [][NextEngineUnit]_vars
    /\ \A w \in Workers : WF_vars(WorkerStep(w))
    /\ WF_vars(StopShutdown \/ StopJoin)

\* ------------------------------------------------------------------ the queue's condition variable
\* The engine started once and never stopped, with the wait of dequeue and the
\* notify of enqueue as steps of their own.  A worker whose wait predicate is
\* false blocks on cv_ ("waiting"), releasing mutex_ in the same step; it runs
\* again when a notify picks it or on a spurious wake-up, and then checks the
\* predicate again under mutex_.
Waiting == {w \in Workers : wpc[w] = "waiting"}

NotifyOneLost(pc, w) == pc

\* cv_.notify_one (OrderQueue.hpp:31): one of the waiting threads is unblocked
NotifyOne(pc, w) == [pc EXCEPT ![w] = "dequeue"]

\* OrderQueue::dequeue, cv_.wait with a false predicate: the worker blocks
WorkerBlock(w) ==
    /\ wpc[w] = "dequeue"
    /\ ~DequeueReady
    /\ wpc' = [wpc EXCEPT ![w] = "waiting"]
    /\ UNCHANGED <<running_, numWorkers_, worder, wtrades, queue_, shutdown_, mpc, ppc, porder, starts, accepted, processed>>
    /\ UNCHANGED bookVars
    /\ UNCHANGED auxVars

\* a wait on a condition variable may return without a notify
SpuriousWake(w) ==
    /\ wpc[w] = "waiting"
    /\ wpc' = [wpc EXCEPT ![w] = "dequeue"]
    /\ UNCHANGED <<running_, numWorkers_, worder, wtrades, queue_, shutdown_, mpc, ppc, porder, starts, accepted, processed>>
    /\ UNCHANGED bookVars
    /\ UNCHANGED auxVars

\* OrderQueue::enqueue, the push under mutex_ (OrderQueue.hpp:27-30)
SubmitPush ==
    /\ ppc = "enqueue"
    /\ queue_' = Append(queue_, porder)
    /\ accepted' = Append(accepted, porder)
    /\ ppc' = "notify"
    /\ UNCHANGED <<running_, numWorkers_, wpc, worder, wtrades, shutdown_, mpc, porder, starts, processed>>
    /\ UNCHANGED bookVars
    /\ UNCHANGED auxVars

\* OrderQueue::enqueue, cv_.notify_one after the mutex is released; then
\* submitOrder returns
SubmitNotify ==
    /\ ppc = "notify"
    /\ IF Waiting = {}
       THEN UNCHANGED wpc
       ELSE \E w \in Waiting : wpc' = NotifyOne(wpc, w)
    /\ ppc' = "idle"
    /\ porder' = 0
    /\ UNCHANGED <<running_, numWorkers_, worder, wtrades, queue_, shutdown_, mpc, starts, accepted, processed>>
    /\ UNCHANGED bookVars
    /\ UNCHANGED auxVars

WorkerWaitStep(w) ==
    \/ WorkerLoop(w)
    \/ WorkerDequeue(w)
    \/ WorkerBlock(w)
    \/ WorkerLock(w)
    \/ WorkerAddOrder(w)
    \/ WorkerStats(w)

NextEngineWait ==
    \/ Start
    \/ \E side \in Sides : SubmitCheck(side, 1, 1)
    \/ SubmitNotRunning
    \/ SubmitPush
    \/ SubmitNotify
    \/ \E w \in Workers : WorkerWaitStep(w)
    \/ \E w \in Workers : SpuriousWake(w)

\* Threads are scheduled fairly: a worker that can run takes its next step and
\* a producer inside enqueue finishes the call.  Spurious wake-ups are allowed
\* and never promised.
FairSpecEngineWait ==
    /\ Init
    /\ [][NextEngineWait]_vars
    /\ \A w \in Workers : WF_vars(WorkerWaitStep(w))
    /\ WF_vars(SubmitPush \/ SubmitNotify)

\* ------------------------------------------------------------------ properties of the book
Range(seq) == {seq[i] : i \in 1..Len(seq)}

\* the order that was resting when trade t of the call of aggressor aggr was made
RestingId(t, aggr) == IF t.buy = aggr THEN t.sell ELSE t.buy

RECURSIVE TradedQuantity(_, _)
TradedQuantity(trades, id) ==
    IF trades = <<>> THEN 0
    ELSE (IF Head(trades).buy = id \/ Head(trades).sell = id THEN Head(trades).quantity ELSE 0)
         + TradedQuantity(Tail(trades), id)

TradesNaming(trades, id) == {i \in 1..Len(trades) : trades[i].buy = id \/ trades[i].sell = id}

\* C1: after every add_order, when both sides of the book are non-empty the
\* best bid price is strictly below the best ask price.
C1_NoCrossedBook ==
    (buyOrders_ # <<>> /\ sellOrders_ # <<>>)
        => orders[Head(buyOrders_)].price < orders[Head(sellOrders_)].price

\* a call traded, rested its remainder, and left both sides non-empty
C1_Witness ==
    /\ buyOrders_ # <<>> /\ sellOrders_ # <<>>
    /\ lastCall.trades # <<>>
    /\ lastCall.id \in Range(buyOrders_) \cup Range(sellOrders_)

\* C2: conservation of quantity: for every order the quantities of all the
\* trades naming its id (as buyer or seller) sum to its filled_quantity.
C2_Conservation ==
    \A id \in DOMAIN orders : TradedQuantity(tradeLog, id) = orders[id].filledQuantity

\* an order filled by two separate trades
C2_Witness ==
    \E id \in DOMAIN orders :
        /\ Cardinality(TradesNaming(tradeLog, id)) = 2
        /\ orders[id].filledQuantity = 2

\* C3: FIFO at a price level: of two orders resting on the same side at the
\* same price with different timestamps, a crossing order trades against the
\* one with the earlier timestamp before it trades against the other.
C3_FifoAtPriceLevel ==
    [][\A a, b \in Range(buyOrders_) \cup Range(sellOrders_) :
          (/\ lastCall'.id # lastCall.id
           /\ orders[a].side = orders[b].side
           /\ orders[a].price = orders[b].price
           /\ orders[a].timestamp < orders[b].timestamp)
          => \A j \in 1..Len(lastCall'.trades) :
                RestingId(lastCall'.trades[j], lastCall'.id) = b
                => \E i \in 1..(j - 1) : RestingId(lastCall'.trades[i], lastCall'.id) = a]_vars

\* one call traded against two orders of the same price and different timestamps
C3_Witness ==
    \E i, j \in 1..Len(lastCall.trades) :
        LET a == RestingId(lastCall.trades[i], lastCall.id)
            b == RestingId(lastCall.trades[j], lastCall.id)
        IN /\ i < j
           /\ orders[a].price = orders[b].price
           /\ orders[a].timestamp < orders[b].timestamp

\* C4: price priority: within the trades returned by one add_order, an incoming
\* buy consumes asks at non-decreasing prices and an incoming sell consumes bids
\* at non-increasing prices.
C4_PricePriority ==
    \A i, j \in 1..Len(lastCall.trades) :
        i < j =>
            LET pi == orders[RestingId(lastCall.trades[i], lastCall.id)].price
                pj == orders[RestingId(lastCall.trades[j], lastCall.id)].price
            IN IF orders[lastCall.id].side = "BUY" THEN pi <= pj ELSE pi >= pj

\* one call swept two price levels
C4_Witness ==
    \E i, j \in 1..Len(lastCall.trades) :
        /\ i < j
        /\ orders[RestingId(lastCall.trades[i], lastCall.id)].price
             # orders[RestingId(lastCall.trades[j], lastCall.id)].price

\* C5: execution price rule: every trade's price is the limit price of the order
\* that was resting when the trade was made, not the incoming order's.
C5_ExecutionPrice ==
    \A i \in 1..Len(lastCall.trades) :
        lastCall.trades[i].price = orders[RestingId(lastCall.trades[i], lastCall.id)].price

\* a limit order traded against a resting order of a different price
C5_Witness ==
    \E i \in 1..Len(lastCall.trades) :
        /\ orders[lastCall.id].type = "LIMIT"
        /\ orders[lastCall.id].price # orders[RestingId(lastCall.trades[i], lastCall.id)].price
        /\ lastCall.trades[i].price = orders[RestingId(lastCall.trades[i], lastCall.id)].price

\* ------------------------------------------------------------------ properties of the engine
Count(seq, id) == Cardinality({i \in 1..Len(seq) : seq[i] = id})

\* the orders as their constructors left them
FreshOrders ==
    [id \in DOMAIN orders |->
        NewOrder(id, orders[id].side, orders[id].type, orders[id].price,
                 orders[id].quantity, orders[id].timestamp)]

\* match_now called on each order of seq in turn, by one caller
RECURSIVE MatchNowSequence(_, _)
MatchNowSequence(b, seq) ==
    IF seq = <<>> THEN b
    ELSE LET r == addOrder(b.orders, b.buy, b.sell, b.map, Head(seq))
         IN MatchNowSequence([r EXCEPT !.trades = b.trades \o r.trades], Tail(seq))

EmptyBook == [orders |-> FreshOrders, buy |-> <<>>, sell |-> <<>>, map |-> {},
              trades |-> <<>>, remainingQty |-> 0]

\* no submit in progress, nothing queued, no worker holding an order
Drained ==
    /\ queue_ = <<>>
    /\ ppc # "enqueue"
    /\ \A w \in Workers : wpc[w] \in {"none", "loop", "dequeue", "exited"}

\* stop() has returned and start() has not been called again
StopReturned == mpc = "idle" /\ ~running_ /\ starts > 0

\* C6: with worker_count = 1 and one producer, once the queue is drained the
\* trade log and the book equal those of match_now called on the submitted
\* orders in submission order.
C6_SingleWorkerDeterminism ==
    (numWorkers_ = 1 /\ Drained) =>
        LET r == MatchNowSequence(EmptyBook, accepted)
        IN /\ tradeLog = r.trades
           /\ buyOrders_ = r.buy
           /\ sellOrders_ = r.sell
           /\ orderMap_ = r.map
           /\ orders = r.orders

\* one worker has drained two submitted orders that traded with each other
C6_Witness ==
    /\ numWorkers_ = 1
    /\ Drained
    /\ Len(accepted) = 2
    /\ tradeLog # <<>>

\* C7: after stop() followed by start() the engine behaves as after the first
\* start(): while it is running, its workers stay alive (none has left
\* workerFunction), waiting in dequeue when the queue is empty.
C7_RestartLikeFirstStart ==
    (running_ /\ mpc = "idle") => \A w \in LiveWorkers : wpc[w] # "exited"

\* C8: no accepted order is lost: when stop() has returned, every order enqueued
\* by submit has either been passed to add_order exactly once or is still in the queue.
C8_NoOrderLost ==
    StopReturned =>
        \A i \in 1..Len(accepted) :
            \/ Count(processed, accepted[i]) = 1 /\ Count(queue_, accepted[i]) = 0
            \/ Count(processed, accepted[i]) = 0 /\ Count(queue_, accepted[i]) = 1

\* stop() returned with one order matched and another left in the queue
C8_Witness ==
    /\ StopReturned
    /\ processed # <<>>
    /\ queue_ # <<>>

\* C9: stop() is synchronous: when it has returned every worker thread has been
\* joined, no add_order of a worker holds the book, and every processOrderSync a
\* worker started has run to its end.
C9_StopSynchronous ==
    StopReturned =>
        /\ \A w \in Workers : wpc[w] = "none"
        /\ bookLock = 0
        /\ stats_.totalOrdersProcessed = Len(processed)

\* stop() returned on a two-worker engine whose workers matched two orders into a trade
C9_Witness ==
    /\ StopReturned
    /\ numWorkers_ = 2
    /\ Len(processed) = 2
    /\ tradeLog # <<>>

\* C10: stop() called on a running engine eventually returns: workers blocked in
\* dequeue are woken by the shutdown and exit, workers in a match exit after it.
C10_StopReturns == (mpc = "stop_shutdown") ~> (mpc = "idle")

\* stop() is under way while one worker waits on the empty queue and another is matching
C10_Witness ==
    /\ mpc = "stop_shutdown"
    /\ queue_ = <<>>
    /\ \E w, v \in Workers : wpc[w] = "dequeue" /\ wpc[v] = "locked"

\* ------------------------------------------------------------------ C11
\* C11: start() on a running engine and stop() on a stopped engine change
\* nothing: while the engine stays running with the main thread between calls
\* the set of worker threads does not change, the threads never outnumber
\* numWorkers_, and a stop() on a stopped engine leaves the running flag, the
\* worker threads and the queue (its shutdown flag included) as they were.
C11_LifecycleIdempotent ==
    [][ /\ (mpc = "idle" /\ mpc' = "idle" /\ running_ /\ running_')
            => WorkerThreads' = WorkerThreads
        /\ Cardinality(WorkerThreads') <= numWorkers_'
        /\ StartRunning => UNCHANGED <<running_, wpc, queue_, shutdown_, starts>>
        /\ StopStopped => UNCHANGED <<running_, wpc, queue_, shutdown_, starts>> ]_vars

\* a restarted engine between two lifecycle calls, all its workers spawned and
\* a spare thread slot left: start() can be called again here
C11_Witness ==
    /\ mpc = "idle"
    /\ running_
    /\ starts = 2
    /\ WorkerThreads = LiveWorkers
    /\ numWorkers_ < MaxWorkers

\* ------------------------------------------------------------------ C12
\* C12: a submit on an engine that is not running (never started, or stopped)
\* fails with an error and changes neither the queue, nor the book, nor the
\* statistics: every step the producer takes from outside a call while
\* running_ is false ends in the error and leaves them as they were.
C12_SubmitNotRunningFails ==
    [][ ((~running_ /\ ppc \in {"idle", "error"} /\ ppc' # ppc) \/ SubmitNotRunning)
           => /\ ppc' = "error"
              /\ UNCHANGED <<queue_, accepted, orders, buyOrders_, sellOrders_, orderMap_,
                             tradeLog, stats_>> ]_vars

\* a submit has failed on a stopped engine that holds a queued order, a resting
\* order and a non-zero counter
C12_Witness ==
    /\ ppc = "error"
    /\ ~running_
    /\ starts > 0
    /\ queue_ # <<>>
    /\ orderMap_ # {}
    /\ stats_.totalOrdersProcessed > 0

\* ------------------------------------------------------------------ C13
\* C13: dequeue returns nothing only when shutdown has been signalled and the
\* buffer is empty; while the buffer holds an order, dequeue returns its head,
\* shutdown or not.
C13_DequeueNullOnlyWhenDrained ==
    [][ \A c \in Workers :
          (received'[c] # received[c] /\ received'[c][Len(received'[c])].call = "dequeue")
            => LET ret == received'[c][Len(received'[c])].order
               IN IF queue_ = <<>>
                  THEN shutdown_ /\ ret = 0 /\ queue_' = queue_
                  ELSE ret = Head(queue_) /\ queue_' = Tail(queue_) ]_vars

\* after shutdown a consumer's dequeue returned an order and its next dequeue
\* returned nothing
C13_Witness ==
    \E c \in Workers :
        /\ shutdown_
        /\ Len(received[c]) >= 2
        /\ received[c][Len(received[c])] = Returned("dequeue", 0)
        /\ received[c][Len(received[c]) - 1].call = "dequeue"
        /\ received[c][Len(received[c]) - 1].order # 0
        /\ \E d \in Workers : d # c /\ received[d] = <<Returned("dequeue", 0)>>

\* ------------------------------------------------------------------ C14
\* position of an order in the enqueue order
EnqueuePosition(id) == CHOOSE i \in 1..Len(accepted) : accepted[i] = id

\* C14: the orders returned to any one consumer by dequeue and tryDequeue
\* appear in the order in which they were enqueued, whatever the interleaving
\* of producers and consumers.
C14_FifoPerConsumer ==
    \A c \in Workers :
        \A i \in 1..Len(received[c]), j \in 1..Len(received[c]) :
            (i < j /\ received[c][i].order # 0 /\ received[c][j].order # 0)
                => EnqueuePosition(received[c][i].order) < EnqueuePosition(received[c][j].order)

\* three orders enqueued against the order of their ids; one consumer was
\* returned the first by dequeue and the third by tryDequeue, another consumer
\* the second in between
C14_Witness ==
    /\ Len(accepted) = 3
    /\ accepted[1] > accepted[3]
    /\ \E c \in Workers, d \in Workers :
          /\ c # d
          /\ received[c] = <<Returned("dequeue", accepted[1]), Returned("tryDequeue", accepted[3])>>
          /\ received[d] = <<Returned("tryDequeue", accepted[2])>>

\* ------------------------------------------------------------------ C15
\* C15: with one worker the orders reach addOrder in the order they were
\* enqueued: the lock order is a prefix of the enqueue order in every state.
\* (With two workers it is not: C15_Witness is reachable, order B enqueued
\* after order A and holding the book lock first.)
C15_SingleWorkerFifo ==
    numWorkers_ = 1 =>
        /\ Len(processed) <= Len(accepted)
        /\ \A i \in 1..Len(processed) : processed[i] = accepted[i]

\* two workers: A was enqueued before B, both were dequeued, and B's addOrder
\* took the book lock before A's
C15_Witness ==
    /\ numWorkers_ = 2
    /\ Len(accepted) = 2
    /\ processed = <<accepted[2], accepted[1]>>
    /\ worder[1] = accepted[1]
    /\ wpc[1] = "locked"

\* ------------------------------------------------------------------ C20
\* C20: none of the three statistics counters ever decreases or is reset, in
\* any step of any interleaving of submit, match_now, worker processing, stop
\* and restart.
C20_StatsMonotonic ==
    [][ /\ stats_'.totalOrdersProcessed >= stats_.totalOrdersProcessed
        /\ stats_'.totalTradesExecuted >= stats_.totalTradesExecuted
        /\ stats_'.totalQuantityTraded >= stats_.totalQuantityTraded ]_vars

\* a restarted engine whose counters hold one submitted and one directly
\* matched order and the trade between them
C20_Witness ==
    /\ starts = 2
    /\ running_
    /\ Len(accepted) = 1
    /\ stats_.totalOrdersProcessed = 2
    /\ stats_.totalTradesExecuted = 1
    /\ stats_.totalQuantityTraded >= 1

\* ------------------------------------------------------------------ C16
\* the book and the log after processOrderSync was called on the orders of
\* processed one after the other, in the order the lock was granted
SequentialInLockOrder == MatchNowSequence(EmptyBook, processed)

\* C16: concurrent addOrder calls are serialised.  The trades of different
\* calls never interleave in the sequence of notifications: it is at every
\* moment a prefix of the log of the sequential execution in lock order.  When
\* no call holds the lock, the log and the book equal those of that execution.
C16_Serialized ==
    LET r == SequentialInLockOrder
    IN /\ Len(tradeLog) <= Len(r.trades)
       /\ \A i \in 1..Len(tradeLog) : tradeLog[i] = r.trades[i]
       /\ bookLock = 0 =>
             /\ tradeLog = r.trades
             /\ buyOrders_ = r.buy
             /\ sellOrders_ = r.sell
             /\ orderMap_ = r.map
             /\ orders = r.orders

\* two calls that both traded against the same resting order; the order
\* constructed last was granted the lock before the one constructed second
C16_Witness ==
    /\ bookLock = 0
    /\ processed = <<1, 3, 2>>
    /\ Len(tradeLog) = 2
    /\ tradeLog[1].buy # tradeLog[2].buy
    /\ tradeLog[1].sell = tradeLog[2].sell

\* ------------------------------------------------------------------ C17
CurrentBook ==
    [orders |-> orders, buy |-> buyOrders_, sell |-> sellOrders_, map |-> orderMap_,
     trades |-> <<>>, remainingQty |-> 0]

\* what the five readers return on a book
Readings(b) ==
    <<getBestBidPrice(b), getBestAskPrice(b), getBuyOrderCount(b), getSellOrderCount(b),
      toString(b)>>

\* C17: a reader running beside addOrder never observes an intermediate state
\* of the matching: while a thread holds the shared lock, what the five readers
\* return is what they return on the book left by the completed calls (no
\* call is half-way), no listed order has a zero remainder and the best bid
\* is below the best ask.
C17_ReadersSeeCompletedCalls ==
    readers # {} =>
        /\ Readings(CurrentBook) = Readings(SequentialInLockOrder)
        /\ \A id \in Range(buyOrders_) \cup Range(sellOrders_) : getRemainingQuantity(orders[id]) > 0
        /\ getBestBidPrice(CurrentBook) < getBestAskPrice(CurrentBook)

\* a reader holds the shared lock on a book with a resting order after a
\* trade, and a caller waits behind it for the exclusive lock
C17_Witness ==
    /\ readers # {}
    /\ tradeLog # <<>>
    /\ orderMap_ # {}
    /\ \E t \in Workers : wpc[t] = "process"

\* ------------------------------------------------------------------ C19
\* the call a trade belongs to: of its two orders the one granted the lock last
TradeCall(tr) ==
    LET Position(id) == CHOOSE i \in 1..Len(processed) : processed[i] = id
    IN IF Position(tr.buy) > Position(tr.sell) THEN tr.buy ELSE tr.sell

\* the notifications the observer received for the call of order id, in order
NotifiedFor(id) ==
    LET OfCall(tr) == TradeCall(tr) = id
    IN SelectSeq(tradeLog, OfCall)

\* C19: when addOrder has returned to processOrderSync (and so before match_now
\* returns), the observer has been invoked exactly once for each trade of the
\* returned sequence, in the order of that sequence.
C19_NotifiedOncePerTrade ==
    \A t \in Workers :
        wpc[t] = "stats" => NotifiedFor(worder[t]) = wtrades[t]

\* a call that swept two resting orders has left addOrder and is about to return
C19_Witness ==
    \E t \in Workers :
        /\ wpc[t] = "stats"
        /\ Len(wtrades[t]) = 2

C24_FilledIffWhole ==
    \A id \in DOMAIN orders :
        orders[id].quantity > 0 =>
            (orders[id].status = "FILLED" <=> orders[id].filledQuantity = orders[id].quantity)

\* a filled order beside a market order that was cancelled with a part filled
C24_Witness ==
    \E a, b \in DOMAIN orders :
        /\ orders[a].status = "FILLED"
        /\ orders[b].status = "CANCELED"
        /\ orders[b].filledQuantity > 0

\* ------------------------------------------------------------------ C25
\* C25 as stated: for every order of positive quantity, status =
\* PARTIALLY_FILLED exactly when 0 < filled_quantity < quantity.
C25_PartiallyFilledIff ==
    \A id \in DOMAIN orders :
        orders[id].quantity > 0 =>
            (orders[id].status = "PARTIALLY_FILLED"
                <=> (0 < orders[id].filledQuantity /\ orders[id].filledQuantity < orders[id].quantity))

\* C25 amended: a PARTIALLY_FILLED order has 0 < filled_quantity < quantity,
\* and an order with 0 < filled_quantity < quantity is PARTIALLY_FILLED unless
\* it is a market order whose remainder was cancelled (then it is CANCELED).
C25_PartiallyFilledOrCanceledMarket ==
    \A id \in DOMAIN orders :
        orders[id].quantity > 0 =>
            /\ orders[id].status = "PARTIALLY_FILLED"
                  => (0 < orders[id].filledQuantity /\ orders[id].filledQuantity < orders[id].quantity)
            /\ (0 < orders[id].filledQuantity /\ orders[id].filledQuantity < orders[id].quantity)
                  => \/ orders[id].status = "PARTIALLY_FILLED"
                     \/ orders[id].status = "CANCELED" /\ orders[id].type = "MARKET"

\* a resting order was partially filled by one call and filled by a market
\* order that was then cancelled with a part of its own quantity filled
C25_Witness ==
    \E b \in DOMAIN orders :
        /\ Len(tradeLog) = 2
        /\ tradeLog[1].quantity < orders[RestingId(tradeLog[2], b)].quantity
        /\ b \in {tradeLog[2].buy, tradeLog[2].sell}
        /\ orders[b].status = "CANCELED"
        /\ orders[b].type = "MARKET"
        /\ 0 < orders[b].filledQuantity
        /\ orders[b].filledQuantity < orders[b].quantity

\* ------------------------------------------------------------------ C26
\* C26: index consistency after every add_order on orders with distinct ids:
\* the ids of the index are the ids resting in bids and asks, every resting
\* order is once on the side of its own direction and not on the other, and
\* filled orders and market orders are in neither the sides nor the index.
C26_IndexConsistent ==
    /\ orderMap_ = Range(buyOrders_) \cup Range(sellOrders_)
    /\ Range(buyOrders_) \cap Range(sellOrders_) = {}
    /\ \A i, j \in 1..Len(buyOrders_) : i # j => buyOrders_[i] # buyOrders_[j]
    /\ \A i, j \in 1..Len(sellOrders_) : i # j => sellOrders_[i] # sellOrders_[j]
    /\ \A id \in Range(buyOrders_) : orders[id].side = "BUY"
    /\ \A id \in Range(sellOrders_) : orders[id].side = "SELL"
    /\ \A id \in DOMAIN orders :
          (orders[id].status = "FILLED" \/ orders[id].type = "MARKET")
              => (id \notin orderMap_ /\ id \notin Range(buyOrders_) /\ id \notin Range(sellOrders_))

\* a limit order rests while a filled limit order and a market order do not
C26_Witness ==
    \E a, b, c \in DOMAIN orders :
        /\ a \in orderMap_
        /\ orders[b].status = "FILLED"
        /\ orders[b].type = "LIMIT"
        /\ orders[c].type = "MARKET"

\* ------------------------------------------------------------------ C27
\* C27: after every add_order no order resting in bids or asks has remaining
\* quantity 0: a resting order leaves its side in the add_order that fills its
\* last unit.
C27_NoEmptyResting ==
    \A id \in Range(buyOrders_) \cup Range(sellOrders_) :
        getRemainingQuantity(orders[id]) > 0

\* a resting order lost its last unit in the latest call and is gone, while
\* the order of that call rests with a remainder
C27_Witness ==
    \E a \in DOMAIN orders :
        /\ lastCall.trades # <<>>
        /\ a = RestingId(lastCall.trades[1], lastCall.id)
        /\ orders[a].status = "FILLED"
        /\ Cardinality(TradesNaming(tradeLog, a)) = 2
        /\ a \notin orderMap_
        /\ lastCall.id \in orderMap_
        /\ orders[lastCall.id].status = "PARTIALLY_FILLED"

\* ------------------------------------------------------------------ C28
\* the step is an add_order of a market order
MarketCall == lastCall'.id # lastCall.id /\ orders'[lastCall'.id].type = "MARKET"

\* the resting orders named by the trades of a call
RestingIds(call) == {RestingId(call.trades[i], call.id) : i \in 1..Len(call.trades)}

\* what C28 says of every market order apart from the index: it does not rest,
\* it trades until it is filled or the opposite side is empty, a remainder
\* leaves it CANCELED with filled_quantity the traded total, and its own side
\* is unchanged
MarketNeverRests ==
    LET id == lastCall'.id
        o == orders'[id]
    IN /\ id \notin orderMap_'
       /\ id \notin Range(buyOrders_') \cup Range(sellOrders_')
       /\ \/ getRemainingQuantity(o) = 0
          \/ (IF o.side = "BUY" THEN sellOrders_' ELSE buyOrders_') = <<>>
       /\ o.filledQuantity = TradedQuantity(lastCall'.trades, id)
       /\ getRemainingQuantity(o) > 0 => o.status = "CANCELED"
       /\ IF o.side = "BUY" THEN buyOrders_' = buyOrders_ ELSE sellOrders_' = sellOrders_

\* C28 as stated: a market order never rests (as above), and when a remainder
\* is left the index is unchanged by the call.
C28_MarketIndexUnchanged ==
    [][MarketCall =>
         /\ MarketNeverRests
         /\ getRemainingQuantity(orders'[lastCall'.id]) > 0 => orderMap_' = orderMap_]_vars

\* C28 amended: a market order never rests (as above), and the index never
\* gains the market order: the call removes from it the resting orders it
\* filled and nothing else.
C28_MarketIndexLosesFilled ==
    [][MarketCall =>
         /\ MarketNeverRests
         /\ orderMap_' \subseteq orderMap_
         /\ orderMap_ \ orderMap_' =
               {a \in RestingIds(lastCall') : orders'[a].status = "FILLED"}]_vars

\* a market order traded above its own price against the only order of the
\* opposite side and was cancelled with a remainder; an order of its own side rests
C28_Witness ==
    LET o == orders[lastCall.id]
    IN /\ lastCall.id # 0
       /\ o.type = "MARKET"
       /\ o.side = "BUY"
       /\ o.status = "CANCELED"
       /\ o.filledQuantity = 1
       /\ lastCall.trades[1].price > o.price
       /\ buyOrders_ # <<>>
       /\ sellOrders_ = <<>>

\* ------------------------------------------------------------------ C29
\* C29 as stated: of two orders resting on the same side at the same price
\* with equal timestamps, a crossing order consumes the one with the smaller
\* id first, whichever was admitted first.
C29_SmallerIdFirstOnEqualTimestamps ==
    [][\A a, b \in Range(buyOrders_) \cup Range(sellOrders_) :
          (/\ lastCall'.id # lastCall.id
           /\ orders[a].side = orders[b].side
           /\ orders[a].price = orders[b].price
           /\ orders[a].timestamp = orders[b].timestamp
           /\ a < b)
          => \A j \in 1..Len(lastCall'.trades) :
                RestingId(lastCall'.trades[j], lastCall'.id) = b
                => \E i \in 1..(j - 1) : RestingId(lastCall'.trades[i], lastCall'.id) = a]_vars

\* ------------------------------------------------------------------ C30
\* the step is an add_order of a limit order that does not cross: the
\* opposite side is empty or its best price is beyond the order's limit
NonCrossingLimitCall ==
    /\ lastCall'.id # lastCall.id
    /\ LET o == orders'[lastCall'.id]
       IN /\ o.type = "LIMIT"
          /\ IF o.side = "BUY"
             THEN sellOrders_ = <<>> \/ o.price < orders[Head(sellOrders_)].price
             ELSE buyOrders_ = <<>> \/ o.price > orders[Head(buyOrders_)].price

\* C30: a limit order that does not cross produces no trades, leaves the
\* opposite side and every resting order unchanged, and rests on its own side
\* with its whole quantity and status NEW.
C30_NonCrossingLimitRests ==
    [][NonCrossingLimitCall =>
         LET id == lastCall'.id
             o == orders'[id]
             own == IF o.side = "BUY" THEN buyOrders_ ELSE sellOrders_
             ownAfter == IF o.side = "BUY" THEN buyOrders_' ELSE sellOrders_'
             oppAfter == IF o.side = "BUY" THEN sellOrders_' ELSE buyOrders_'
             opp == IF o.side = "BUY" THEN sellOrders_ ELSE buyOrders_
         IN /\ lastCall'.trades = <<>>
            /\ tradeLog' = tradeLog
            /\ oppAfter = opp
            /\ \A r \in DOMAIN orders : orders'[r] = orders[r]
            /\ Len(ownAfter) = Len(own) + 1
            /\ \E k \in 1..Len(ownAfter) :
                  /\ ownAfter[k] = id
                  /\ SubSeq(ownAfter, 1, k - 1) \o SubSeq(ownAfter, k + 1, Len(ownAfter)) = own
            /\ orderMap_' = orderMap_ \cup {id}
            /\ o.filledQuantity = 0
            /\ getRemainingQuantity(o) = o.quantity
            /\ o.status = "NEW"]_vars

\* a buy below the best ask has rested untouched beside an older bid, the ask
\* still resting
C30_Witness ==
    /\ lastCall.id # 0
    /\ lastCall.trades = <<>>
    /\ orders[lastCall.id].side = "BUY"
    /\ orders[lastCall.id].status = "NEW"
    /\ lastCall.id \in Range(buyOrders_)
    /\ Len(buyOrders_) = 2
    /\ sellOrders_ # <<>>
    /\ orders[lastCall.id].price < orders[Head(sellOrders_)].price

\* ------------------------------------------------------------------ C21
\* C21 as stated: an order of zero quantity passed to add_order is rejected:
\* its status becomes REJECTED, the returned trade sequence is empty, and it
\* is not rested.
C21_ZeroQuantityRejected ==
    [][(lastCall'.id # lastCall.id /\ orders[lastCall'.id].quantity = 0) =>
         /\ orders'[lastCall'.id].status = "REJECTED"
         /\ lastCall'.trades = <<>>
         /\ lastCall'.id \notin orderMap_'
         /\ lastCall'.id \notin Range(buyOrders_') \cup Range(sellOrders_')]_vars

\* ------------------------------------------------------------------ C22
\* C22: fill(q) with q = 0 or q greater than the remaining quantity is
\* rejected wholly: it returns false and leaves the order (filled_quantity and
\* status) as it was.
C22_FillRejectedWholly ==
    [][lastFill' # lastFill =>
         LET o == orders[lastFill'.id]
             q == lastFill'.quantity
         IN (q = 0 \/ q > getRemainingQuantity(o)) =>
               /\ ~lastFill'.returned
               /\ orders'[lastFill'.id].filledQuantity = o.filledQuantity
               /\ orders'[lastFill'.id].status = o.status]_vars

\* a fill of the whole quantity was refused on a partially filled order: the
\* quantity exceeds the remainder only
C22_Witness ==
    /\ lastFill.id # 0
    /\ ~lastFill.returned
    /\ orders[lastFill.id].status = "PARTIALLY_FILLED"
    /\ lastFill.quantity = orders[lastFill.id].quantity
    /\ lastFill.quantity > getRemainingQuantity(orders[lastFill.id])

\* ------------------------------------------------------------------ C23
\* C23 as stated: once an order is FILLED or CANCELED, no later fill, cancel
\* or add_order changes its filled_quantity or its status (an order cancelled
\* by its producer before it is admitted included).
C23_FinalStatusIsFinal ==
    [][\A id \in DOMAIN orders :
          orders[id].status \in {"FILLED", "CANCELED"} =>
              /\ orders'[id].filledQuantity = orders[id].filledQuantity
              /\ orders'[id].status = orders[id].status]_vars

\* ------------------------------------------------------------------ C31
\* the calls of the consumers that returned order id
ReturnsOf(id) ==
    {<<c, i>> \in Workers \X (1..MaxCalls) : i <= Len(received[c]) /\ received[c][i].order = id}

\* the calls of the consumers that returned an order
ReturnsOfOrders ==
    {<<c, i>> \in Workers \X (1..MaxCalls) : i <= Len(received[c]) /\ received[c][i].order # 0}

\* C31: exactly-once handoff: every enqueued order is returned by at most one
\* dequeue / tryDequeue call, and in every state the number of orders enqueued
\* equals the number returned to consumers plus the number still in the queue.
C31_ExactlyOnceHandoff ==
    /\ \A id \in Ids : Cardinality(ReturnsOf(id)) <= 1
    /\ \A id \in Ids : Cardinality(ReturnsOf(id)) + Count(queue_, id) = Count(accepted, id)
    /\ Len(accepted) = Cardinality(ReturnsOfOrders) + Len(queue_)

\* three orders enqueued: two consumers were returned one each, by dequeue and
\* by tryDequeue, and the third is still queued
C31_Witness ==
    /\ Len(accepted) = 3
    /\ Len(queue_) = 1
    /\ \E c, d \in Workers :
          /\ c # d
          /\ \E i \in 1..Len(received[c]) :
                received[c][i].call = "dequeue" /\ received[c][i].order # 0
          /\ \E j \in 1..Len(received[d]) :
                received[d][j].call = "tryDequeue" /\ received[d][j].order # 0

\* ------------------------------------------------------------------ C32
\* submitOrder(id) has returned without an error
SubmitReturned(id) == id \in Range(accepted) /\ porder # id

\* C32: progress while running: on an engine started once and not stopped,
\* every order whose submit returned without error is eventually dequeued by a
\* worker and passed to add_order, under fair scheduling.
C32_ProgressWhileRunning ==
    \A id \in Ids : SubmitReturned(id) ~> (id \in Range(processed))

\* a first order has been matched; the submit of a second has returned, the
\* order is still queued, and the notify has unblocked one of two workers
\* that were both waiting
C32_Witness ==
    /\ numWorkers_ = 2
    /\ Len(processed) = 1
    /\ Len(accepted) = 2
    /\ SubmitReturned(accepted[2])
    /\ queue_ = <<accepted[2]>>
    /\ \E w, v \in Workers : wpc[w] = "dequeue" /\ wpc[v] = "waiting"

\* ------------------------------------------------------------------ C33
\* C33 as stated: no order is enqueued while the engine has no live worker: a
\* submit running concurrently with stop() either fails with the not-running
\* error or enqueues its order before stop() has joined the workers; it never
\* passes the running check and then enqueues after stop() has returned.
C33_NoEnqueueAfterStop ==
    [][accepted' # accepted => ~StopReturned]_vars

\* ------------------------------------------------------------------ C34
\* no worker is inside processOrderSync (a direct call is one step)
Quiescent == \A w \in Workers : wpc[w] \notin {"locked", "stats"}

\* the processOrderSync calls made directly: one per order that was
\* constructed by a caller and not by the producer
DirectCalls == Cardinality(DOMAIN orders) - Len(accepted) - (IF ppc = "enqueue" THEN 1 ELSE 0)

\* C34: the statistics agree with the trade log at quiescence: whenever no
\* processOrderSync is in progress, totalOrdersProcessed is the number of
\* completed calls (direct and by workers), totalTradesExecuted the number of
\* trades emitted and totalQuantityTraded the sum of their quantities.
C34_StatsAgreeAtQuiescence ==
    Quiescent =>
        /\ stats_.totalOrdersProcessed = Len(processed) + DirectCalls
        /\ stats_.totalTradesExecuted = Len(tradeLog)
        /\ stats_.totalQuantityTraded = SumQuantity(tradeLog)

\* a two-worker engine at rest after one order went through a worker and one
\* through a direct call, the two trading two units
C34_Witness ==
    /\ Quiescent
    /\ numWorkers_ = 2
    /\ Len(processed) = 1
    /\ DirectCalls = 1
    /\ Len(tradeLog) = 1
    /\ stats_.totalQuantityTraded = 2

\* ------------------------------------------------------------------ C35
\* C35 as stated: the quantities of the trades emitted by one add_order call
\* sum to at most the incoming order's remaining quantity at entry, every
\* emitted trade is a fill that was applied to both of its orders, and an
\* order admitted more than once is not inserted into its side a second time.
C35_TradesWithinRemainder ==
    [][processed' # processed =>
         LET id == lastCall'.id
         IN /\ SumQuantity(lastCall'.trades) <= getRemainingQuantity(orders[id])
            /\ \A o \in DOMAIN orders :
                  orders'[o].filledQuantity - orders[o].filledQuantity
                      = TradedQuantity(lastCall'.trades, o)
            /\ Count(buyOrders_', id) + Count(sellOrders_', id) <= 1]_vars

\* ------------------------------------------------------------------ C36
\* the place of a resting order in the iteration order of its side
Position(seq, id) == CHOOSE i \in 1..Len(seq) : seq[i] = id

\* the side of the book on which order id rests
OwnSide(buy, sell, id) == IF id \in Range(buy) THEN buy ELSE sell

\* C36: time priority is keyed on the creation timestamp, not on the arrival
\* at the book: an order that comes to rest is placed ahead of every order
\* already resting at its price on its side whose timestamp is later than
\* its own, and a crossing order consumes the resting orders in the order
\* of their places, so the order placed ahead is consumed first.
C36_CreationTimePriority ==
    [][lastCall'.id # lastCall.id =>
         LET x == lastCall'.id
             before == Range(buyOrders_) \cup Range(sellOrders_)
             after == Range(buyOrders_') \cup Range(sellOrders_')
         IN /\ x \in after =>
                 \A b \in before \cap after :
                     (/\ orders'[b].side = orders'[x].side
                      /\ orders'[b].price = orders'[x].price
                      /\ orders'[x].timestamp < orders'[b].timestamp)
                     => Position(OwnSide(buyOrders_', sellOrders_', x), x)
                          < Position(OwnSide(buyOrders_', sellOrders_', x), b)
            /\ \A j \in 1..Len(lastCall'.trades) :
                  LET q == RestingId(lastCall'.trades[j], x)
                      side == OwnSide(buyOrders_, sellOrders_, q)
                  IN /\ q \in before
                     /\ \A k \in 1..(Position(side, q) - 1) :
                           \E i \in 1..(j - 1) : RestingId(lastCall'.trades[i], x) = side[k]]_vars

\* the order admitted last carries the earlier timestamp and rests at the head
\* of its side, ahead of an order of the same price that was resting before it
C36_Witness ==
    /\ lastCall.id # 0
    /\ lastCall.trades = <<>>
    /\ Len(buyOrders_) >= 2
    /\ buyOrders_[1] = lastCall.id
    /\ orders[buyOrders_[2]].price = orders[lastCall.id].price
    /\ orders[lastCall.id].timestamp < orders[buyOrders_[2]].timestamp

=============================================================================
